---- MODULE Spec2Model ----
(***************************************************************************)
(* A model of the OpenAI tutorial scripts: the OpenAIClient wrapper        *)
(* (main.py), the OpenAITutorial driver with its interactive loop, the     *)
(* program started through main() with example1's module-level client, and *)
(* the example3 script.  The remote API and the SDK constructor are the    *)
(* boundary: their outcomes are chosen nondeterministically.               *)
(***************************************************************************)
EXTENDS Integers, Sequences, FiniteSets, TLC

VARIABLES
    entry,      \* which program is run: "main", "wrapper", "chat", "example3"
    pc,         \* position of the single thread of control
    envKey,     \* os.getenv('OPENAI_API_KEY') once load_dotenv() has run
    ex1Client,  \* api key held by example1's module-level client (None: not built)
    handle,     \* the OpenAIClient instance's fields (None: not constructed)
    attempt,    \* argument of the last OpenAIClient(...) call (None: never called)
    sent,       \* the last request handed to the remote API (None: none yet)
    netCalls,   \* number of requests handed to the remote API
    event,      \* the last thing the boundary (remote call, input()) answered
    result,     \* value returned by the last wrapper operation
    console,    \* lines printed so far
    fault,      \* exception that left the program unhandled ("none": none)
    consumed,   \* lines input() has returned to interactive_chat
    forwarded,  \* messages interactive_chat handed to chat_completion
    eof,        \* the input stream is exhausted
    turns       \* number of input() calls made by interactive_chat

vars == <<entry, pc, envKey, ex1Client, handle, attempt, sent, netCalls, event,
          result, console, fault, consumed, forwarded, eof, turns>>

----
\* Bounds of the model.
MaxCalls == 2
MaxTurns == 3

----
\* Python values, tagged with their type.  Floats are kept in tenths.
None == [t |-> "None"]
PyStr(s) == [t |-> "str", v |-> s]
PyInt(n) == [t |-> "int", v |-> n]
PyFloat(n) == [t |-> "float", v |-> n]
PyList(s) == [t |-> "list", v |-> s]

\* Python's truth value of an object.
Truthy(x) ==
    CASE x.t = "None" -> FALSE
      [] x.t = "str" -> x.v # ""
      [] x.t = "int" -> x.v # 0
      [] x.t = "float" -> x.v # 0
      [] x.t = "list" -> x.v # <<>>

\* Python's `a or b`.
PyOr(a, b) == IF Truthy(a) THEN a ELSE b

\* Outcomes of a try body or of a boundary call.
Return(v) == [kind |-> "return", val |-> v]
Raise(e) == [kind |-> "raise", exc |-> e]

\* `except Exception` catches every exception class but the BaseException-only
\* ones; KeyboardInterrupt is the one that occurs here.
IsExceptionAll(e) == TRUE
IsException(e) == e # "KeyboardInterrupt"

----
\* The defaults set by OpenAIClient.__init__.
DefaultModel == "gpt-4o-mini"
DefaultMaxTokens == 150
DefaultTemperatureTenths == 7

\* OpenAIClient.__init__(api_key): sdk is the outcome of OpenAI(api_key=...).
OpenAIClient_init_nocheck(api_key, env, sdk) ==
    IF sdk.kind = "raise" THEN sdk
    ELSE Return([api_key |-> PyOr(api_key, env),
                 default_model |-> PyStr(DefaultModel),
                 default_max_tokens |-> PyInt(DefaultMaxTokens),
                 default_temperature |-> PyFloat(DefaultTemperatureTenths)])

OpenAIClient_init(api_key, env, sdk) ==
    LET key == PyOr(api_key, env) IN
    IF ~Truthy(key) THEN Raise("ValueError")
    ELSE IF sdk.kind = "raise" THEN sdk
    ELSE Return([api_key |-> key,
                 default_model |-> PyStr(DefaultModel),
                 default_max_tokens |-> PyInt(DefaultMaxTokens),
                 default_temperature |-> PyFloat(DefaultTemperatureTenths)])

----
\* chat_completion: the turns assembled for the call.
Turn(role, content) == [role |-> role, content |-> content]

ChatMessagesWithMemory(message, system_prompt) ==
    (IF sent # None /\ sent.endpoint = "chat.completions"
        THEN sent.payload.messages ELSE <<>>)
    \o (IF Truthy(system_prompt) THEN <<Turn("system", system_prompt.v)>> ELSE <<>>)
    \o <<Turn("user", message)>>

ChatMessagesUserFirst(message, system_prompt) ==
    <<Turn("user", message)>>
    \o (IF Truthy(system_prompt) THEN <<Turn("system", system_prompt.v)>> ELSE <<>>)

ChatMessages(message, system_prompt) ==
    (IF Truthy(system_prompt) THEN <<Turn("system", system_prompt.v)>> ELSE <<>>)
    \o <<Turn("user", message)>>

\* chat_completion: the keyword arguments of client.chat.completions.create.
ChatPayload(h, message, model, max_tokens, temperature, system_prompt) ==
    [model |-> PyOr(model, h.default_model),
     messages |-> ChatMessages(message, system_prompt),
     max_tokens |-> PyOr(max_tokens, h.default_max_tokens),
     temperature |-> PyOr(temperature, h.default_temperature)]

\* chat_completion: from the remote call's outcome to what the method does.
\* out.data is response.choices, as the sequence of message contents.
ChatBody(out) ==
    IF out.kind = "raise" THEN out
    ELSE IF out.data = <<>> THEN Raise("IndexError")
    ELSE Return(PyStr(out.data[1]))

chat_completion_result(out) ==
    LET b == ChatBody(out) IN
    IF b.kind = "raise" /\ IsException(b.exc)
    THEN [out |-> Return(PyStr("Error generating response: " \o b.exc)), printed |-> <<>>]
    ELSE [out |-> b, printed |-> <<>>]

\* generate_embeddings: out.data is response.data, as the sequence of vectors.
EmbeddingsBody(out) ==
    IF out.kind = "raise" THEN out
    ELSE IF out.data = <<>> THEN Raise("IndexError")
    ELSE Return(PyList(out.data[1]))

generate_embeddings_uncaught(out) == [out |-> EmbeddingsBody(out), printed |-> <<>>]

generate_embeddings_result(out) ==
    LET b == EmbeddingsBody(out) IN
    IF b.kind = "raise" /\ IsException(b.exc)
    THEN [out |-> Return(PyList(<<>>)),
          printed |-> <<"Error generating embeddings: " \o b.exc>>]
    ELSE [out |-> b, printed |-> <<>>]

\* generate_image: out.data is response.data, as the sequence of urls.
ImageBody(out) == IF out.kind = "raise" THEN out ELSE Return(PyList(out.data))

generate_image_silent(out) ==
    LET b == ImageBody(out) IN
    IF b.kind = "raise" /\ IsException(b.exc)
    THEN [out |-> Return(PyList(<<>>)), printed |-> <<>>]
    ELSE [out |-> b, printed |-> <<>>]

generate_image_result(out) ==
    LET b == ImageBody(out) IN
    IF b.kind = "raise" /\ IsException(b.exc)
    THEN [out |-> Return(PyList(<<>>)),
          printed |-> <<"Error generating image: " \o b.exc>>]
    ELSE [out |-> b, printed |-> <<>>]

----
\* str.strip() and str.lower() on a line, a sequence of one-character strings.
Whitespace == {" ", "\t"}

RECURSIVE LStrip(_)
LStrip(s) == IF s # <<>> /\ Head(s) \in Whitespace THEN LStrip(Tail(s)) ELSE s

RECURSIVE RStrip(_)
RStrip(s) ==
    IF s # <<>> /\ s[Len(s)] \in Whitespace THEN RStrip(SubSeq(s, 1, Len(s) - 1)) ELSE s

Strip(s) == RStrip(LStrip(s))

UpperChars == <<"A", "B", "C", "D", "E", "F", "G", "H", "I", "J", "K", "L", "M",
                "N", "O", "P", "Q", "R", "S", "T", "U", "V", "W", "X", "Y", "Z">>
LowerChars == <<"a", "b", "c", "d", "e", "f", "g", "h", "i", "j", "k", "l", "m",
                "n", "o", "p", "q", "r", "s", "t", "u", "v", "w", "x", "y", "z">>

LowerChar(c) ==
    IF \E i \in DOMAIN UpperChars : UpperChars[i] = c
    THEN LowerChars[CHOOSE i \in DOMAIN UpperChars : UpperChars[i] = c]
    ELSE c

Lower(s) == [i \in 1..Len(s) |-> LowerChar(s[i])]

\* interactive_chat: the list ['quit', 'exit', 'q'].
ExitTokens == {<<"q", "u", "i", "t">>, <<"e", "x", "i", "t">>, <<"q">>}

\* interactive_chat: what one pass of the loop does with the line input() returned.
LoopStepNoEmptyCheck(line) ==
    LET user_input == Strip(line) IN
    IF Lower(user_input) \in ExitTokens THEN [do |-> "break", text |-> user_input]
    ELSE [do |-> "forward", text |-> user_input]

LoopStep(line) ==
    LET user_input == Strip(line) IN
    IF Lower(user_input) \in ExitTokens THEN [do |-> "break", text |-> user_input]
    ELSE IF user_input # <<>> THEN [do |-> "forward", text |-> user_input]
    ELSE [do |-> "skip", text |-> user_input]

\* interactive_chat: the except clauses of the loop, in their order.
LoopHandlerBreakOnError(e) ==
    IF e = "KeyboardInterrupt" THEN [do |-> "break", printed |-> <<"\nGoodbye!">>]
    ELSE [do |-> "break", printed |-> <<"Error: " \o e>>]

LoopHandler(e) ==
    IF e = "KeyboardInterrupt" THEN [do |-> "break", printed |-> <<"\nGoodbye!">>]
    ELSE IF IsException(e) THEN [do |-> "continue", printed |-> <<"Error: " \o e>>]
    ELSE [do |-> "propagate", printed |-> <<>>]

\* run_all_demos: the list ['y', 'yes'] and the except clause.
YesTokens == {<<"y">>, <<"y", "e", "s">>}

RunAllDemosHandler(e) ==
    IF IsException(e)
    THEN [do |-> "return",
          printed |-> <<"Error running demos: " \o e,
                        "Make sure your OpenAI API key is set correctly in the .env file">>]
    ELSE [do |-> "propagate", printed |-> <<>>]

\* run_example1: the except clause.
RunExample1Handler(e) ==
    IF IsException(e)
    THEN [do |-> "return",
          printed |-> <<"Error in Example 1: " \o e,
                        "Make sure your OpenAI API key is set in the .env file">>]
    ELSE [do |-> "propagate", printed |-> <<>>]

\* main: the except clauses, in their order.
MainHandler(e) ==
    IF e = "ValueError"
    THEN [do |-> "return",
          printed |-> <<"Configuration Error: " \o e,
                        "Please check your .env file and ensure OPENAI_API_KEY is set">>]
    ELSE IF IsException(e)
    THEN [do |-> "return", printed |-> <<"Unexpected error: " \o e>>]
    ELSE [do |-> "propagate", printed |-> <<>>]

----
\* What the boundary can answer.
Response(d) == [kind |-> "response", data |-> d]
SdkOutcomes == {Response("client"), Raise("OpenAIError")}
\* OpenAI(api_key=key): with key None (and so no OPENAI_API_KEY either) the
\* constructor raises; any other key may be accepted.
SdkOutcomesFor(key) == IF key = None THEN {Raise("OpenAIError")} ELSE SdkOutcomes
RemoteFailures == {Raise("APIConnectionError"), Raise("KeyboardInterrupt")}
ChatOutcomes == {Response(<<"hello">>), Response(<<>>)} \cup RemoteFailures
EmbeddingOutcomes == {Response(<< <<1, 2, 3>> >>), Response(<<>>)} \cup RemoteFailures
ImageOutcomes == {Response(<<"https://img/1">>), Response(<<>>)} \cup RemoteFailures
Example1Outcomes ==
    {Response([content |-> "story", usage |-> PyInt(20)]),
     Response([content |-> "story", usage |-> None])} \cup RemoteFailures
Example3Outcomes == {Response("Arr, they be optional.")} \cup RemoteFailures
InputFailures == {"EOFError", "KeyboardInterrupt"}

\* The arguments the callers are given to choose from.
EnvKeys == {None, PyStr(""), PyStr("sk-env")}
ApiKeyArgs == {None, PyStr(""), PyStr("sk-arg")}
MessageArgs == {<<"h", "i">>, <<>>}
ModelArgs == {None, PyStr(""), PyStr("gpt-4o")}
MaxTokensArgs == {None, PyInt(0), PyInt(50)}
TemperatureArgs == {None, PyFloat(0), PyFloat(10)}
SystemPromptArgs == {None, PyStr(""), PyStr("Be concise.")}
EmbeddingModelArgs == {"text-embedding-3-small", "text-embedding-3-large"}
ImageSizeArgs == {"1024x1024", "512x512"}
InputLines ==
    {<<>>, <<" ">>, <<"h", "i">>, <<" ", "h", "i", " ">>, <<"q">>, <<" ", "Q", " ">>,
     <<"Q", "u", "i", "t">>, <<"e", "x", "i", "t">>, <<"q", "q">>, <<"q", " ", "q">>}
AnswerLines == {<<"y">>, <<"Y", "E", "S">>, <<" ", "y">>, <<"n">>, <<>>}

Entries == {"main", "wrapper", "chat", "example3"}

StartOf(e) ==
    CASE e = "main" -> "import_example1"
      [] e = "wrapper" -> "start"
      [] e = "chat" -> "construct_tutorial"
      [] e = "example3" -> "example3_start"

NoEvent == [src |-> "none"]

Init ==
    /\ entry \in Entries
    /\ envKey \in EnvKeys
    /\ pc = StartOf(entry)
    /\ ex1Client = None
    /\ handle = None
    /\ attempt = None
    /\ sent = None
    /\ netCalls = 0
    /\ event = NoEvent
    /\ result = None
    /\ console = <<>>
    /\ fault = "none"
    /\ consumed = <<>>
    /\ forwarded = <<>>
    /\ eof = FALSE
    /\ turns = 0

----
\* A caller of the wrapper: OpenAIClient(api_key), then any of its three methods.

WrapperConstruct(api_key, sdk) ==
    /\ entry = "wrapper" /\ pc = "start"
    /\ LET r == OpenAIClient_init(api_key, envKey, sdk) IN
        /\ attempt' = [api_key |-> api_key]
        /\ handle' = IF r.kind = "return" THEN r.val ELSE handle
        /\ fault' = IF r.kind = "return" THEN fault ELSE r.exc
        /\ pc' = IF r.kind = "return" THEN "idle" ELSE "crashed"
    /\ UNCHANGED <<entry, envKey, ex1Client, sent, netCalls, event, result, console,
                   consumed, forwarded, eof, turns>>

\* The return of a wrapper method to its caller: r is the method's result.
WrapperReturn(out, r) ==
    /\ event' = [src |-> "remote", out |-> out]
    /\ console' = console \o r.printed
    /\ result' = IF r.out.kind = "return" THEN r.out.val ELSE result
    /\ fault' = IF r.out.kind = "return" THEN fault ELSE r.out.exc
    /\ pc' = IF r.out.kind = "return" THEN "idle" ELSE "crashed"
    /\ UNCHANGED <<entry, envKey, ex1Client, handle, attempt, sent, netCalls,
                   consumed, forwarded, eof, turns>>

chat_completion_call(message, model, max_tokens, temperature, system_prompt) ==
    /\ entry = "wrapper" /\ pc = "idle" /\ netCalls < MaxCalls
    /\ sent' = [endpoint |-> "chat.completions",
                key |-> handle.api_key,
                payload |-> ChatPayload(handle, message, model, max_tokens,
                                        temperature, system_prompt),
                args |-> [message |-> message, model |-> model,
                          max_tokens |-> max_tokens, temperature |-> temperature,
                          system_prompt |-> system_prompt]]
    /\ netCalls' = netCalls + 1
    /\ pc' = "in_chat_completion"
    /\ UNCHANGED <<entry, envKey, ex1Client, handle, attempt, event, result, console,
                   fault, consumed, forwarded, eof, turns>>

chat_completion_return(out) ==
    /\ entry = "wrapper" /\ pc = "in_chat_completion"
    /\ WrapperReturn(out, chat_completion_result(out))

generate_embeddings_call(text, model) ==
    /\ entry = "wrapper" /\ pc = "idle" /\ netCalls < MaxCalls
    /\ sent' = [endpoint |-> "embeddings",
                key |-> handle.api_key,
                payload |-> [model |-> model, input |-> text],
                args |-> [text |-> text, model |-> model]]
    /\ netCalls' = netCalls + 1
    /\ pc' = "in_generate_embeddings"
    /\ UNCHANGED <<entry, envKey, ex1Client, handle, attempt, event, result, console,
                   fault, consumed, forwarded, eof, turns>>

generate_embeddings_return(out) ==
    /\ entry = "wrapper" /\ pc = "in_generate_embeddings"
    /\ WrapperReturn(out, generate_embeddings_result(out))

generate_image_call(prompt, size) ==
    /\ entry = "wrapper" /\ pc = "idle" /\ netCalls < MaxCalls
    /\ sent' = [endpoint |-> "images",
                key |-> handle.api_key,
                payload |-> [model |-> "dall-e-3", prompt |-> prompt, size |-> size,
                             quality |-> "standard", n |-> 1],
                args |-> [prompt |-> prompt, size |-> size]]
    /\ netCalls' = netCalls + 1
    /\ pc' = "in_generate_image"
    /\ UNCHANGED <<entry, envKey, ex1Client, handle, attempt, event, result, console,
                   fault, consumed, forwarded, eof, turns>>

generate_image_return(out) ==
    /\ entry = "wrapper" /\ pc = "in_generate_image"
    /\ WrapperReturn(out, generate_image_result(out))

----
\* The program started through main(): `from example1 import run_example1` runs
\* example1's module level, then main() runs.

import_example1(sdk) ==
    /\ entry = "main" /\ pc = "import_example1"
    /\ ex1Client' = IF sdk.kind = "raise" THEN ex1Client ELSE [key |-> envKey]
    /\ fault' = IF sdk.kind = "raise" THEN sdk.exc ELSE fault
    /\ pc' = IF sdk.kind = "raise" THEN "crashed" ELSE "main"
    /\ UNCHANGED <<entry, envKey, handle, attempt, sent, netCalls, event, result,
                   console, consumed, forwarded, eof, turns>>

\* main() up to run_all_demos' input(): OpenAITutorial() and main's except clauses.
main(sdk) ==
    /\ entry = "main" /\ pc = "main"
    /\ LET r == OpenAIClient_init(None, envKey, sdk)
           h == IF r.kind = "raise" THEN MainHandler(r.exc)
                ELSE [do |-> "go", printed |-> <<>>]
           welcome == <<"Welcome to OpenAI Tutorial!", "=====">>
       IN
        /\ attempt' = [api_key |-> None]
        /\ handle' = IF r.kind = "return" THEN r.val ELSE handle
        /\ console' =
             IF r.kind = "return"
             THEN console \o welcome
                  \o <<"OpenAI Tutorial initialized successfully!", "-----", "\n=====">>
             ELSE console \o welcome \o h.printed
        /\ fault' = IF h.do = "propagate" THEN r.exc ELSE fault
        /\ pc' = CASE h.do = "go" -> "run_all_demos"
                   [] h.do = "return" -> "done"
                   [] h.do = "propagate" -> "crashed"
    /\ UNCHANGED <<entry, envKey, ex1Client, sent, netCalls, event, result,
                   consumed, forwarded, eof, turns>>

\* run_all_demos: input() returned a line.
run_all_demos(line) ==
    /\ entry = "main" /\ pc = "run_all_demos"
    /\ event' = [src |-> "input", out |-> Return(line)]
    /\ IF Lower(line) \in YesTokens
       THEN /\ console' = console \o <<"\n", "Running Example 1 - GPT Advanced Demo", "=====">>
            /\ sent' = [endpoint |-> "chat.completions",
                        key |-> ex1Client.key,
                        payload |-> [model |-> PyStr("gpt-4o-mini"),
                                     messages |-> <<Turn("user",
                                        "Write a one-sentence bedtime story about a unicorn.")>>],
                        args |-> None]
            /\ netCalls' = netCalls + 1
            /\ pc' = "in_run_example1"
       ELSE /\ pc' = "done"
            /\ UNCHANGED <<console, sent, netCalls>>
    /\ UNCHANGED <<entry, envKey, ex1Client, handle, attempt, result, fault,
                   consumed, forwarded, eof, turns>>

\* run_all_demos: input() raised.
run_all_demos_raise(e) ==
    /\ entry = "main" /\ pc = "run_all_demos"
    /\ event' = [src |-> "input", out |-> Raise(e)]
    /\ LET h == RunAllDemosHandler(e)
           m == IF h.do = "propagate" THEN MainHandler(e) ELSE h
       IN
        /\ console' = console \o h.printed \o (IF h.do = "propagate" THEN m.printed ELSE <<>>)
        /\ fault' = IF m.do = "propagate" THEN e ELSE fault
        /\ pc' = IF m.do = "propagate" THEN "crashed" ELSE "done"
    /\ UNCHANGED <<entry, envKey, ex1Client, handle, attempt, sent, netCalls, result,
                   consumed, forwarded, eof, turns>>

\* run_example1: from the remote call's outcome to the end of main().
Example1Body(out) ==
    IF out.kind = "raise" THEN [out |-> out, printed |-> <<>>]
    ELSE IF out.data.usage = None
    THEN [out |-> Raise("AttributeError"),
          printed |-> <<"Bedtime Story:", out.data.content, "Model used: gpt-4o-mini">>]
    ELSE [out |-> Return(None),
          printed |-> <<"Bedtime Story:", out.data.content, "Model used: gpt-4o-mini",
                        "Tokens used">>]

run_example1_return(out) ==
    /\ entry = "main" /\ pc = "in_run_example1"
    /\ event' = [src |-> "remote", out |-> out]
    /\ LET b == Example1Body(out)
           h1 == IF b.out.kind = "raise" THEN RunExample1Handler(b.out.exc)
                 ELSE [do |-> "return", printed |-> <<>>]
           h2 == IF h1.do = "propagate" THEN RunAllDemosHandler(b.out.exc) ELSE h1
           h3 == IF h2.do = "propagate" THEN MainHandler(b.out.exc) ELSE h2
       IN
        /\ console' = console \o b.printed \o h1.printed
                      \o (IF h1.do = "propagate" THEN h2.printed ELSE <<>>)
                      \o (IF h2.do = "propagate" THEN h3.printed ELSE <<>>)
        /\ fault' = IF h3.do = "propagate" THEN b.out.exc ELSE fault
        /\ pc' = IF h3.do = "propagate" THEN "crashed" ELSE "done"
    /\ UNCHANGED <<entry, envKey, ex1Client, handle, attempt, sent, netCalls, result,
                   consumed, forwarded, eof, turns>>

----
\* OpenAITutorial().interactive_chat()

\* OpenAITutorial.__init__ and interactive_chat up to the first input().
interactive_chat_start(sdk) ==
    /\ entry = "chat" /\ pc = "construct_tutorial"
    /\ LET r == OpenAIClient_init(None, envKey, sdk) IN
        /\ attempt' = [api_key |-> None]
        /\ handle' = IF r.kind = "return" THEN r.val ELSE handle
        /\ console' =
             IF r.kind = "return"
             THEN console \o <<"OpenAI Tutorial initialized successfully!", "-----",
                                "\nInteractive Chat Mode", "-----",
                                "Type your messages (type 'quit' to exit):">>
             ELSE console
        /\ fault' = IF r.kind = "return" THEN fault ELSE r.exc
        /\ pc' = IF r.kind = "return" THEN "read" ELSE "crashed"
    /\ UNCHANGED <<entry, envKey, ex1Client, sent, netCalls, event, result,
                   consumed, forwarded, eof, turns>>

\* One pass of the loop in which input() returns a line.
interactive_chat_read(line) ==
    /\ entry = "chat" /\ pc = "read" /\ ~eof /\ turns < MaxTurns
    /\ turns' = turns + 1
    /\ event' = [src |-> "input", out |-> Return(line)]
    /\ consumed' = Append(consumed, line)
    /\ LET s == LoopStep(line) IN
        /\ console' = IF s.do = "break" THEN Append(console, "Goodbye!") ELSE console
        /\ pc' = CASE s.do = "break" -> "done"
                   [] s.do = "forward" -> "in_interactive_chat"
                   [] s.do = "skip" -> "read"
        /\ forwarded' = IF s.do = "forward" THEN Append(forwarded, s.text) ELSE forwarded
        /\ netCalls' = IF s.do = "forward" THEN netCalls + 1 ELSE netCalls
        /\ sent' = IF s.do = "forward"
                   THEN [endpoint |-> "chat.completions",
                         key |-> handle.api_key,
                         payload |-> ChatPayload(handle, s.text, None, None, None, None),
                         args |-> [message |-> s.text, model |-> None,
                                   max_tokens |-> None, temperature |-> None,
                                   system_prompt |-> None]]
                   ELSE sent
    /\ UNCHANGED <<entry, envKey, ex1Client, handle, attempt, result, fault, eof>>

\* The except clauses of the loop acting on exception e.
LoopExcept(e) ==
    LET h == LoopHandler(e) IN
    /\ console' = console \o h.printed
    /\ fault' = IF h.do = "propagate" THEN e ELSE fault
    /\ pc' = CASE h.do = "break" -> "done"
               [] h.do = "continue" -> "read"
               [] h.do = "propagate" -> "crashed"

\* One pass of the loop in which input() raises.
interactive_chat_read_raise(e) ==
    /\ entry = "chat" /\ pc = "read" /\ turns < MaxTurns
    /\ turns' = turns + 1
    /\ event' = [src |-> "input", out |-> Raise(e)]
    /\ eof' = (eof \/ e = "EOFError")
    /\ LoopExcept(e)
    /\ UNCHANGED <<entry, envKey, ex1Client, handle, attempt, sent, netCalls, result,
                   consumed, forwarded>>

\* The forwarded chat_completion call comes back.
interactive_chat_response(out) ==
    /\ entry = "chat" /\ pc = "in_interactive_chat"
    /\ event' = [src |-> "remote", out |-> out]
    /\ LET r == chat_completion_result(out) IN
        IF r.out.kind = "return"
        THEN /\ result' = r.out.val
             /\ console' = console \o r.printed \o <<"AI: " \o r.out.val.v>>
             /\ pc' = "read"
             /\ UNCHANGED fault
        ELSE /\ LoopExcept(r.out.exc)
             /\ UNCHANGED result
    /\ UNCHANGED <<entry, envKey, ex1Client, handle, attempt, sent, netCalls,
                   consumed, forwarded, eof, turns>>

----
\* The example3 script: a module-level client and two unguarded responses.create calls.

Example3First ==
    [endpoint |-> "responses",
     key |-> envKey,
     payload |-> [model |-> "gpt-5-nano", reasoning |-> "low",
                  instructions |-> PyStr("Talk like a pirate."),
                  input |-> PyStr("Are semicolons optional in JavaScript?")],
     args |-> None]

Example3Second ==
    [endpoint |-> "responses",
     key |-> envKey,
     payload |-> [model |-> "gpt-5-nano", reasoning |-> "low",
                  instructions |-> None,
                  input |-> PyList(<<Turn("developer", "Talk like a pirate."),
                                     Turn("user", "Are semicolons optional in JavaScript?")>>)],
     args |-> None]

example3_start(sdk) ==
    /\ entry = "example3" /\ pc = "example3_start"
    /\ IF sdk.kind = "raise"
       THEN /\ fault' = sdk.exc
            /\ pc' = "crashed"
            /\ UNCHANGED <<sent, netCalls>>
       ELSE /\ sent' = Example3First
            /\ netCalls' = netCalls + 1
            /\ pc' = "example3_first"
            /\ UNCHANGED fault
    /\ UNCHANGED <<entry, envKey, ex1Client, handle, attempt, event, result, console,
                   consumed, forwarded, eof, turns>>

example3_first_return(out) ==
    /\ entry = "example3" /\ pc = "example3_first"
    /\ event' = [src |-> "remote", out |-> out]
    /\ IF out.kind = "raise"
       THEN /\ fault' = out.exc
            /\ pc' = "crashed"
            /\ UNCHANGED <<sent, netCalls, console>>
       ELSE /\ console' = Append(console, out.data)
            /\ sent' = Example3Second
            /\ netCalls' = netCalls + 1
            /\ pc' = "example3_second"
            /\ UNCHANGED fault
    /\ UNCHANGED <<entry, envKey, ex1Client, handle, attempt, result,
                   consumed, forwarded, eof, turns>>

example3_second_return(out) ==
    /\ entry = "example3" /\ pc = "example3_second"
    /\ event' = [src |-> "remote", out |-> out]
    /\ console' = IF out.kind = "raise" THEN console ELSE Append(console, out.data)
    /\ fault' = IF out.kind = "raise" THEN out.exc ELSE fault
    /\ pc' = IF out.kind = "raise" THEN "crashed" ELSE "done"
    /\ UNCHANGED <<entry, envKey, ex1Client, handle, attempt, sent, netCalls, result,
                   consumed, forwarded, eof, turns>>

----
Next ==
    \/ \E k \in ApiKeyArgs : \E sdk \in SdkOutcomesFor(PyOr(k, envKey)) :
            WrapperConstruct(k, sdk)
    \/ \E m \in MessageArgs, mo \in ModelArgs, mt \in MaxTokensArgs,
          te \in TemperatureArgs, sp \in SystemPromptArgs :
            chat_completion_call(m, mo, mt, te, sp)
    \/ \E out \in ChatOutcomes : chat_completion_return(out)
    \/ \E t \in MessageArgs, mo \in EmbeddingModelArgs : generate_embeddings_call(t, mo)
    \/ \E out \in EmbeddingOutcomes : generate_embeddings_return(out)
    \/ \E p \in MessageArgs, sz \in ImageSizeArgs : generate_image_call(p, sz)
    \/ \E out \in ImageOutcomes : generate_image_return(out)
    \/ \E sdk \in SdkOutcomesFor(envKey) : import_example1(sdk)
    \/ \E sdk \in SdkOutcomesFor(envKey) : main(sdk)
    \/ \E line \in AnswerLines : run_all_demos(line)
    \/ \E e \in InputFailures : run_all_demos_raise(e)
    \/ \E out \in Example1Outcomes : run_example1_return(out)
    \/ \E sdk \in SdkOutcomesFor(envKey) : interactive_chat_start(sdk)
    \/ \E line \in InputLines : interactive_chat_read(line)
    \/ \E e \in InputFailures : interactive_chat_read_raise(e)
    \/ \E out \in ChatOutcomes : interactive_chat_response(out)
    \/ \E sdk \in SdkOutcomesFor(envKey) : example3_start(sdk)
    \/ \E out \in Example3Outcomes : example3_first_return(out)
    \/ \E out \in Example3Outcomes : example3_second_return(out)

Spec == Init /\ [][Next]_vars

----
\* Shorthands used by the properties below.
Last(q) == q[Len(q)]
RemoteAnswered(o) == event.src = "remote" /\ event.out = o
InputAnswered(o) == event.src = "input" /\ event.out = o
TransportFailed == RemoteAnswered(Raise("APIConnectionError"))
ChatSent == sent # None /\ sent.endpoint = "chat.completions" /\ sent.args # None

----
\* OpenAIClient(...) has been called with no credential available.
NoCredential == attempt # None /\ ~Truthy(attempt.api_key) /\ ~Truthy(envKey)

\* C1: when neither the api_key argument nor OPENAI_API_KEY holds a non-empty value,
\* OpenAIClient(...) raises ValueError (main() prints 'Configuration Error' and ends),
\* no handle is built, and no request is handed to the remote API in the run.
C1_NoCredentialFails ==
    /\ NoCredential =>
        /\ handle = None
        /\ netCalls = 0
        /\ IF entry = "main"
           THEN /\ pc = "done" /\ fault = "none"
                /\ console[3] = "Configuration Error: ValueError"
           ELSE pc = "crashed" /\ fault = "ValueError"
    /\ (entry \in {"main", "chat"} /\ ~Truthy(envKey)) => netCalls = 0

C1_Witness == NoCredential /\ entry = "main" /\ pc = "done" /\ ex1Client # None

----
----
\* C3: in every chat_completion request the model, max_tokens and temperature sent
\* are the explicit argument whenever one is supplied (0, 0.0 and "" included), and
\* the handle's default only when the argument is not supplied.
C3_ExplicitOverrides ==
    ChatSent =>
        /\ sent.payload.model =
             (IF sent.args.model # None THEN sent.args.model ELSE PyStr("gpt-4o-mini"))
        /\ sent.payload.max_tokens =
             (IF sent.args.max_tokens # None THEN sent.args.max_tokens ELSE PyInt(150))
        /\ sent.payload.temperature =
             (IF sent.args.temperature # None THEN sent.args.temperature ELSE PyFloat(7))

----
\* The number of turns of a role in a message list.
RoleCount(msgs, role) == Cardinality({i \in DOMAIN msgs : msgs[i].role = role})

\* C4: a chat_completion request made with a system prompt carries exactly the system
\* turn followed by the user turn; made without one (None, or the empty string, which
\* the code treats alike) it carries exactly the user turn; never more than one turn
\* of either role.
C4_TurnOrder ==
    ChatSent =>
        LET msgs == sent.payload.messages
            sp == sent.args.system_prompt
        IN  /\ Truthy(sp) =>
                 msgs = <<[role |-> "system", content |-> sp.v],
                          [role |-> "user", content |-> sent.args.message]>>
            /\ ~Truthy(sp) => msgs = <<[role |-> "user", content |-> sent.args.message]>>
            /\ RoleCount(msgs, "system") <= 1
            /\ RoleCount(msgs, "user") = 1

C4_Witness ==
    /\ ChatSent /\ Truthy(sent.args.system_prompt)
    /\ Len(sent.payload.messages) = 2

----
\* The two kinds of line the loop acts on.
IsExitLine(line) == Lower(Strip(line)) \in ExitTokens
IsChatLine(line) == Strip(line) # <<>> /\ ~IsExitLine(line)

ExpectedForwards(lines) ==
    LET chat == SelectSeq(lines, IsChatLine) IN [i \in 1..Len(chat) |-> Strip(chat[i])]

\* The state half of C5: the requests made are those of the chat lines read, and an
\* exit token is the last line read.
C5_State ==
    entry = "chat" =>
        /\ forwarded = ExpectedForwards(consumed)
        /\ netCalls = Len(forwarded)
        /\ \A i \in DOMAIN consumed :
              IsExitLine(consumed[i]) => (i = Len(consumed) /\ pc = "done")
        /\ (pc = "done" => ~ENABLED Next)

\* The step half of C5: reading a line that is empty once stripped changes nothing
\* but the record of lines read.
C5_EmptyLineStep ==
    (entry = "chat" /\ consumed' # consumed /\ Strip(Last(consumed')) = <<>>) =>
        (console' = console /\ netCalls' = netCalls /\ sent' = sent /\ pc' = "read")

\* C5: interactive_chat forwards exactly the lines that, stripped, are non-empty and
\* no exit token (quit, exit, q in any case), one request each and in order; the first
\* exit token ends the loop, so nothing is read or sent after it; a line that is empty
\* once stripped causes no request and no output.
C5_OneCallPerLine == []C5_State /\ [][C5_EmptyLineStep]_vars

C5_Witness ==
    /\ entry = "chat" /\ pc = "done" /\ Len(consumed) = 3
    /\ Strip(consumed[1]) = <<>>
    /\ forwarded = << <<"h", "i">> >>
    /\ IsExitLine(consumed[3])

----
Interrupted == event.src # "none" /\ event.out = Raise("KeyboardInterrupt")

\* C6: a KeyboardInterrupt during input() or during the forwarded chat_completion
\* call ends interactive_chat with the farewell printed; it does not escape and the
\* loop does not prompt again.

C6_InterruptEndsLoop ==
    (entry = "chat" /\ Interrupted) =>
        /\ pc = "done"
        /\ fault = "none"
        /\ Last(console) = "\nGoodbye!"
        /\ ~ENABLED Next

C6_Witness ==
    /\ entry = "chat" /\ RemoteAnswered(Raise("KeyboardInterrupt"))
    /\ pc = "done" /\ Len(forwarded) = 2

----
FailureReports ==
    {"Error generating response: APIConnectionError",
     "Error generating embeddings: APIConnectionError",
     "Error generating image: APIConnectionError"}

\* C7 as stated: after a failed call each wrapper operation has printed an error
\* report and returned an empty value.
C7_Original ==
    (entry = "wrapper" /\ pc = "idle" /\ TransportFailed) =>
        /\ ~Truthy(result)
        /\ console # <<>>
        /\ Last(console) \in FailureReports

\* C7 as amended: generate_embeddings and generate_image print the error report and
\* return the empty list; chat_completion prints nothing and returns the error text
\* 'Error generating response: ...' as its (non-empty) result.
C7_ReportAndResult ==
    entry = "wrapper" =>
        /\ (pc = "idle" /\ TransportFailed) =>
              CASE sent.endpoint = "embeddings" ->
                     /\ result = PyList(<<>>)
                     /\ console # <<>>
                     /\ Last(console) = "Error generating embeddings: APIConnectionError"
                [] sent.endpoint = "images" ->
                     /\ result = PyList(<<>>)
                     /\ console # <<>>
                     /\ Last(console) = "Error generating image: APIConnectionError"
                [] sent.endpoint = "chat.completions" ->
                     /\ result = PyStr("Error generating response: APIConnectionError")
                     /\ Truthy(result)
        /\ \A i \in DOMAIN console :
              console[i] \in {"Error generating embeddings: APIConnectionError",
                              "Error generating embeddings: IndexError",
                              "Error generating image: APIConnectionError"}

C7_Witness ==
    /\ entry = "wrapper" /\ pc = "idle" /\ TransportFailed
    /\ sent.endpoint = "images" /\ Len(console) = 2

----
\* C8: whatever calls were made and however they ended, the handle's api_key and
\* defaults are those set by the constructor, and a chat_completion request carries
\* only the system prompt and message of its own call.
C8_StatelessHandle ==
    /\ handle # None =>
          handle = [api_key |-> PyOr(attempt.api_key, envKey),
                    default_model |-> PyStr("gpt-4o-mini"),
                    default_max_tokens |-> PyInt(150),
                    default_temperature |-> PyFloat(7)]
    /\ ChatSent =>
          /\ Len(sent.payload.messages) <= 2
          /\ \A i \in DOMAIN sent.payload.messages :
                LET t == sent.payload.messages[i] IN
                CASE t.role = "system" ->
                       /\ Truthy(sent.args.system_prompt)
                       /\ t.content = sent.args.system_prompt.v
                  [] t.role = "user" -> t.content = sent.args.message
                  [] OTHER -> FALSE

C8_Witness ==
    /\ entry = "wrapper" /\ netCalls = 2 /\ pc = "idle" /\ ChatSent
    /\ sent.args.model = PyStr("gpt-4o") /\ RemoteAnswered(Raise("APIConnectionError"))

----
\* C9: in a run started through main(), a request is handed to the remote API only
\* once OpenAIClient has been constructed, and the key of the client that issues it
\* is the non-empty key the constructor checked.
C9_RequestsAfterConstruction ==
    (entry = "main" /\ netCalls > 0) =>
        /\ handle # None
        /\ Truthy(handle.api_key)
        /\ ex1Client # None
        /\ sent.key = handle.api_key

C9_Witness == entry = "main" /\ netCalls > 0 /\ pc = "done"

----
EndedByToken ==
    /\ event.src = "input" /\ event.out.kind = "return"
    /\ IsExitLine(event.out.val)

\* C10: interactive_chat ends only on an exit token or a KeyboardInterrupt; an
\* EOFError from input() is printed as 'Error: ...' and the loop goes on, so once the
\* input is exhausted only an interrupt ends it.
C10_LoopExits ==
    (entry = "chat" /\ handle # None) =>
        /\ pc \in {"read", "in_interactive_chat", "done"}
        /\ fault = "none"
        /\ pc = "done" => (EndedByToken \/ Interrupted)
        /\ InputAnswered(Raise("EOFError")) =>
              (pc = "read" /\ Last(console) = "Error: EOFError")
        /\ (eof /\ pc = "done") => Interrupted

C10_Witness ==
    /\ entry = "chat" /\ pc = "read" /\ eof /\ turns = 3
    /\ InputAnswered(Raise("EOFError")) /\ consumed = <<>>

====
